---- MODULE Spec2Model ----
(***************************************************************************)
(* SHA3 hash engine and the sha3() / sha3_query() SQL functions of         *)
(* sqlitecipher/sqlite3/shathree.c.                                        *)
(*                                                                         *)
(* A 64-bit lane (u64) is the set of its one-bit positions, 0 being the    *)
(* least significant bit, so that no 64-bit value has to fit an integer.   *)
(* A byte is an integer 0..255.  The 1600-bit state u.s[25] is a tuple of  *)
(* 25 lanes, u.s[k] being s[k + 1].                                        *)
(***************************************************************************)
EXTENDS Integers, Sequences, FiniteSets, TLC

VARIABLES build, fn, pc, args, iSize, cx, zSql, pStmt, result,
          calls, absorbed, nPrepared, stepFailed, prev

vars == << build, fn, pc, args, iSize, cx, zSql, pStmt, result,
           calls, absorbed, nPrepared, stepFailed, prev >>

(***************************************************************************)
(* 64-bit words and bytes                                                  *)
(***************************************************************************)
\* F(v), with v worked out once however often F uses it: the value a C
\* variable holds.
Bind(v, F(_)) == CHOOSE r \in {F(x) : x \in {v}} : TRUE

RECURSIVE Pow2(_)
Pow2(k) == IF k = 0 THEN 1 ELSE 2 * Pow2(k - 1)

\* The one-bit positions of the w-bit number v.
BitSet(v, w) == {b \in 0..(w - 1) : (v \div Pow2(b)) % 2 = 1}

\* The number whose one-bit positions, all below 8, are S.
BitsValue(S) ==
  LET V(b) == IF b \in S THEN Pow2(b) ELSE 0
  IN  V(0) + V(1) + V(2) + V(3) + V(4) + V(5) + V(6) + V(7)

\* A 64-bit literal written as four 16-bit groups, most significant first.
U64(w3, w2, w1, w0) ==
  BitSet(w0, 16) \cup {b + 16 : b \in BitSet(w1, 16)}
    \cup {b + 32 : b \in BitSet(w2, 16)} \cup {b + 48 : b \in BitSet(w3, 16)}

\* C operators on u64: ^, &, ~ and the ROL64 macro.
XOR(a, b) == (a \ b) \cup (b \ a)
AND(a, b) == a \cap b
NOT64(a) == (0..63) \ a
ROL64(a, x) == {(b + x) % 64 : b \in a}

\* Byte k (0 = least significant) of a lane, and a byte placed at byte k.
LaneByte(a, k) ==
  LET V(b) == IF (8 * k + b) \in a THEN Pow2(b) ELSE 0
  IN  V(0) + V(1) + V(2) + V(3) + V(4) + V(5) + V(6) + V(7)
ByteAt(v, k) == {b + 8 * k : b \in BitSet(v, 8)}

(***************************************************************************)
(* KeccakF1600Step: the round constants and one pass of the loop body,     *)
(* which is four unrolled rounds.                                          *)
(***************************************************************************)
RCTable ==
  << U64(    0,     0,     0,     1),
     U64(    0,     0,     0, 32898),
     U64(32768,     0,     0, 32906),
     U64(32768,     0, 32768, 32768),
     U64(    0,     0,     0, 32907),
     U64(    0,     0, 32768,     1),
     U64(32768,     0, 32768, 32897),
     U64(32768,     0,     0, 32777),
     U64(    0,     0,     0,   138),
     U64(    0,     0,     0,   136),
     U64(    0,     0, 32768, 32777),
     U64(    0,     0, 32768,    10),
     U64(    0,     0, 32768, 32907),
     U64(32768,     0,     0,   139),
     U64(32768,     0,     0, 32905),
     U64(32768,     0,     0, 32771),
     U64(32768,     0,     0, 32770),
     U64(32768,     0,     0,   128),
     U64(    0,     0,     0, 32778),
     U64(32768,     0, 32768,    10),
     U64(32768,     0, 32768, 32897),
     U64(32768,     0,     0, 32896),
     U64(    0,     0, 32768,     1),
     U64(32768,     0, 32768, 32776) >>

\* RC[i] read one place too far.
RC_OffByOne(i) == RCTable[((i + 1) % 24) + 1]

RC(i) == RCTable[i + 1]

\* The variables of the loop body: DTAyx is p->u.s[5*y+x]; the locals DTB,
\* DTC, DTD are assigned before they are read, whatever they start as.
KeccakVars(s) ==
  [DTA00 |-> s[1], DTA01 |-> s[2], DTA02 |-> s[3], DTA03 |-> s[4], DTA04 |-> s[5],
   DTA10 |-> s[6], DTA11 |-> s[7], DTA12 |-> s[8], DTA13 |-> s[9], DTA14 |-> s[10],
   DTA20 |-> s[11], DTA21 |-> s[12], DTA22 |-> s[13], DTA23 |-> s[14], DTA24 |-> s[15],
   DTA30 |-> s[16], DTA31 |-> s[17], DTA32 |-> s[18], DTA33 |-> s[19], DTA34 |-> s[20],
   DTA40 |-> s[21], DTA41 |-> s[22], DTA42 |-> s[23], DTA43 |-> s[24], DTA44 |-> s[25],
   DTB0 |-> {}, DTB1 |-> {}, DTB2 |-> {}, DTB3 |-> {}, DTB4 |-> {},
   DTC0 |-> {}, DTC1 |-> {}, DTC2 |-> {}, DTC3 |-> {}, DTC4 |-> {},
   DTD0 |-> {}, DTD1 |-> {}, DTD2 |-> {}, DTD3 |-> {}, DTD4 |-> {}]

\* The statements of the loop body, lines 128 to 394, in order, on the
\* variables e.  Group k holds consecutive assignments none of which reads
\* or overwrites what an earlier one of the group assigns, so that it is
\* one simultaneous assignment.
KeccakStatements(e, i, k) ==
  CASE k = 1 ->   \* lines 128-132
         [e EXCEPT !.DTC0 = XOR(XOR(XOR(XOR(e.DTA00, e.DTA10), e.DTA20), e.DTA30), e.DTA40),
                   !.DTC1 = XOR(XOR(XOR(XOR(e.DTA01, e.DTA11), e.DTA21), e.DTA31), e.DTA41),
                   !.DTC2 = XOR(XOR(XOR(XOR(e.DTA02, e.DTA12), e.DTA22), e.DTA32), e.DTA42),
                   !.DTC3 = XOR(XOR(XOR(XOR(e.DTA03, e.DTA13), e.DTA23), e.DTA33), e.DTA43),
                   !.DTC4 = XOR(XOR(XOR(XOR(e.DTA04, e.DTA14), e.DTA24), e.DTA34), e.DTA44)]
    [] k = 2 ->   \* lines 133-137
         [e EXCEPT !.DTD0 = XOR(e.DTC4, ROL64(e.DTC1, 1)),
                   !.DTD1 = XOR(e.DTC0, ROL64(e.DTC2, 1)),
                   !.DTD2 = XOR(e.DTC1, ROL64(e.DTC3, 1)),
                   !.DTD3 = XOR(e.DTC2, ROL64(e.DTC4, 1)),
                   !.DTD4 = XOR(e.DTC3, ROL64(e.DTC0, 1))]
    [] k = 3 ->   \* lines 139-143
         [e EXCEPT !.DTB0 = XOR(e.DTA00, e.DTD0),
                   !.DTB1 = ROL64(XOR(e.DTA11, e.DTD1), 44),
                   !.DTB2 = ROL64(XOR(e.DTA22, e.DTD2), 43),
                   !.DTB3 = ROL64(XOR(e.DTA33, e.DTD3), 21),
                   !.DTB4 = ROL64(XOR(e.DTA44, e.DTD4), 14)]
    [] k = 4 ->   \* lines 144-144
         [e EXCEPT !.DTA00 = XOR(e.DTB0, AND(NOT64(e.DTB1), e.DTB2))]
    [] k = 5 ->   \* lines 145-149
         [e EXCEPT !.DTA00 = XOR(e.DTA00, RC(i)),
                   !.DTA11 = XOR(e.DTB1, AND(NOT64(e.DTB2), e.DTB3)),
                   !.DTA22 = XOR(e.DTB2, AND(NOT64(e.DTB3), e.DTB4)),
                   !.DTA33 = XOR(e.DTB3, AND(NOT64(e.DTB4), e.DTB0)),
                   !.DTA44 = XOR(e.DTB4, AND(NOT64(e.DTB0), e.DTB1))]
    [] k = 6 ->   \* lines 151-155
         [e EXCEPT !.DTB2 = ROL64(XOR(e.DTA20, e.DTD0), 3),
                   !.DTB3 = ROL64(XOR(e.DTA31, e.DTD1), 45),
                   !.DTB4 = ROL64(XOR(e.DTA42, e.DTD2), 61),
                   !.DTB0 = ROL64(XOR(e.DTA03, e.DTD3), 28),
                   !.DTB1 = ROL64(XOR(e.DTA14, e.DTD4), 20)]
    [] k = 7 ->   \* lines 156-160
         [e EXCEPT !.DTA20 = XOR(e.DTB0, AND(NOT64(e.DTB1), e.DTB2)),
                   !.DTA31 = XOR(e.DTB1, AND(NOT64(e.DTB2), e.DTB3)),
                   !.DTA42 = XOR(e.DTB2, AND(NOT64(e.DTB3), e.DTB4)),
                   !.DTA03 = XOR(e.DTB3, AND(NOT64(e.DTB4), e.DTB0)),
                   !.DTA14 = XOR(e.DTB4, AND(NOT64(e.DTB0), e.DTB1))]
    [] k = 8 ->   \* lines 162-166
         [e EXCEPT !.DTB4 = ROL64(XOR(e.DTA40, e.DTD0), 18),
                   !.DTB0 = ROL64(XOR(e.DTA01, e.DTD1), 1),
                   !.DTB1 = ROL64(XOR(e.DTA12, e.DTD2), 6),
                   !.DTB2 = ROL64(XOR(e.DTA23, e.DTD3), 25),
                   !.DTB3 = ROL64(XOR(e.DTA34, e.DTD4), 8)]
    [] k = 9 ->   \* lines 167-171
         [e EXCEPT !.DTA40 = XOR(e.DTB0, AND(NOT64(e.DTB1), e.DTB2)),
                   !.DTA01 = XOR(e.DTB1, AND(NOT64(e.DTB2), e.DTB3)),
                   !.DTA12 = XOR(e.DTB2, AND(NOT64(e.DTB3), e.DTB4)),
                   !.DTA23 = XOR(e.DTB3, AND(NOT64(e.DTB4), e.DTB0)),
                   !.DTA34 = XOR(e.DTB4, AND(NOT64(e.DTB0), e.DTB1))]
    [] k = 10 ->   \* lines 173-177
         [e EXCEPT !.DTB1 = ROL64(XOR(e.DTA10, e.DTD0), 36),
                   !.DTB2 = ROL64(XOR(e.DTA21, e.DTD1), 10),
                   !.DTB3 = ROL64(XOR(e.DTA32, e.DTD2), 15),
                   !.DTB4 = ROL64(XOR(e.DTA43, e.DTD3), 56),
                   !.DTB0 = ROL64(XOR(e.DTA04, e.DTD4), 27)]
    [] k = 11 ->   \* lines 178-182
         [e EXCEPT !.DTA10 = XOR(e.DTB0, AND(NOT64(e.DTB1), e.DTB2)),
                   !.DTA21 = XOR(e.DTB1, AND(NOT64(e.DTB2), e.DTB3)),
                   !.DTA32 = XOR(e.DTB2, AND(NOT64(e.DTB3), e.DTB4)),
                   !.DTA43 = XOR(e.DTB3, AND(NOT64(e.DTB4), e.DTB0)),
                   !.DTA04 = XOR(e.DTB4, AND(NOT64(e.DTB0), e.DTB1))]
    [] k = 12 ->   \* lines 184-188
         [e EXCEPT !.DTB3 = ROL64(XOR(e.DTA30, e.DTD0), 41),
                   !.DTB4 = ROL64(XOR(e.DTA41, e.DTD1), 2),
                   !.DTB0 = ROL64(XOR(e.DTA02, e.DTD2), 62),
                   !.DTB1 = ROL64(XOR(e.DTA13, e.DTD3), 55),
                   !.DTB2 = ROL64(XOR(e.DTA24, e.DTD4), 39)]
    [] k = 13 ->   \* lines 189-193
         [e EXCEPT !.DTA30 = XOR(e.DTB0, AND(NOT64(e.DTB1), e.DTB2)),
                   !.DTA41 = XOR(e.DTB1, AND(NOT64(e.DTB2), e.DTB3)),
                   !.DTA02 = XOR(e.DTB2, AND(NOT64(e.DTB3), e.DTB4)),
                   !.DTA13 = XOR(e.DTB3, AND(NOT64(e.DTB4), e.DTB0)),
                   !.DTA24 = XOR(e.DTB4, AND(NOT64(e.DTB0), e.DTB1))]
    [] k = 14 ->   \* lines 195-199
         [e EXCEPT !.DTC0 = XOR(XOR(XOR(XOR(e.DTA00, e.DTA20), e.DTA40), e.DTA10), e.DTA30),
                   !.DTC1 = XOR(XOR(XOR(XOR(e.DTA11, e.DTA31), e.DTA01), e.DTA21), e.DTA41),
                   !.DTC2 = XOR(XOR(XOR(XOR(e.DTA22, e.DTA42), e.DTA12), e.DTA32), e.DTA02),
                   !.DTC3 = XOR(XOR(XOR(XOR(e.DTA33, e.DTA03), e.DTA23), e.DTA43), e.DTA13),
                   !.DTC4 = XOR(XOR(XOR(XOR(e.DTA44, e.DTA14), e.DTA34), e.DTA04), e.DTA24)]
    [] k = 15 ->   \* lines 200-204
         [e EXCEPT !.DTD0 = XOR(e.DTC4, ROL64(e.DTC1, 1)),
                   !.DTD1 = XOR(e.DTC0, ROL64(e.DTC2, 1)),
                   !.DTD2 = XOR(e.DTC1, ROL64(e.DTC3, 1)),
                   !.DTD3 = XOR(e.DTC2, ROL64(e.DTC4, 1)),
                   !.DTD4 = XOR(e.DTC3, ROL64(e.DTC0, 1))]
    [] k = 16 ->   \* lines 206-210
         [e EXCEPT !.DTB0 = XOR(e.DTA00, e.DTD0),
                   !.DTB1 = ROL64(XOR(e.DTA31, e.DTD1), 44),
                   !.DTB2 = ROL64(XOR(e.DTA12, e.DTD2), 43),
                   !.DTB3 = ROL64(XOR(e.DTA43, e.DTD3), 21),
                   !.DTB4 = ROL64(XOR(e.DTA24, e.DTD4), 14)]
    [] k = 17 ->   \* lines 211-211
         [e EXCEPT !.DTA00 = XOR(e.DTB0, AND(NOT64(e.DTB1), e.DTB2))]
    [] k = 18 ->   \* lines 212-216
         [e EXCEPT !.DTA00 = XOR(e.DTA00, RC(i + 1)),
                   !.DTA31 = XOR(e.DTB1, AND(NOT64(e.DTB2), e.DTB3)),
                   !.DTA12 = XOR(e.DTB2, AND(NOT64(e.DTB3), e.DTB4)),
                   !.DTA43 = XOR(e.DTB3, AND(NOT64(e.DTB4), e.DTB0)),
                   !.DTA24 = XOR(e.DTB4, AND(NOT64(e.DTB0), e.DTB1))]
    [] k = 19 ->   \* lines 218-222
         [e EXCEPT !.DTB2 = ROL64(XOR(e.DTA40, e.DTD0), 3),
                   !.DTB3 = ROL64(XOR(e.DTA21, e.DTD1), 45),
                   !.DTB4 = ROL64(XOR(e.DTA02, e.DTD2), 61),
                   !.DTB0 = ROL64(XOR(e.DTA33, e.DTD3), 28),
                   !.DTB1 = ROL64(XOR(e.DTA14, e.DTD4), 20)]
    [] k = 20 ->   \* lines 223-227
         [e EXCEPT !.DTA40 = XOR(e.DTB0, AND(NOT64(e.DTB1), e.DTB2)),
                   !.DTA21 = XOR(e.DTB1, AND(NOT64(e.DTB2), e.DTB3)),
                   !.DTA02 = XOR(e.DTB2, AND(NOT64(e.DTB3), e.DTB4)),
                   !.DTA33 = XOR(e.DTB3, AND(NOT64(e.DTB4), e.DTB0)),
                   !.DTA14 = XOR(e.DTB4, AND(NOT64(e.DTB0), e.DTB1))]
    [] k = 21 ->   \* lines 229-233
         [e EXCEPT !.DTB4 = ROL64(XOR(e.DTA30, e.DTD0), 18),
                   !.DTB0 = ROL64(XOR(e.DTA11, e.DTD1), 1),
                   !.DTB1 = ROL64(XOR(e.DTA42, e.DTD2), 6),
                   !.DTB2 = ROL64(XOR(e.DTA23, e.DTD3), 25),
                   !.DTB3 = ROL64(XOR(e.DTA04, e.DTD4), 8)]
    [] k = 22 ->   \* lines 234-238
         [e EXCEPT !.DTA30 = XOR(e.DTB0, AND(NOT64(e.DTB1), e.DTB2)),
                   !.DTA11 = XOR(e.DTB1, AND(NOT64(e.DTB2), e.DTB3)),
                   !.DTA42 = XOR(e.DTB2, AND(NOT64(e.DTB3), e.DTB4)),
                   !.DTA23 = XOR(e.DTB3, AND(NOT64(e.DTB4), e.DTB0)),
                   !.DTA04 = XOR(e.DTB4, AND(NOT64(e.DTB0), e.DTB1))]
    [] k = 23 ->   \* lines 240-244
         [e EXCEPT !.DTB1 = ROL64(XOR(e.DTA20, e.DTD0), 36),
                   !.DTB2 = ROL64(XOR(e.DTA01, e.DTD1), 10),
                   !.DTB3 = ROL64(XOR(e.DTA32, e.DTD2), 15),
                   !.DTB4 = ROL64(XOR(e.DTA13, e.DTD3), 56),
                   !.DTB0 = ROL64(XOR(e.DTA44, e.DTD4), 27)]
    [] k = 24 ->   \* lines 245-249
         [e EXCEPT !.DTA20 = XOR(e.DTB0, AND(NOT64(e.DTB1), e.DTB2)),
                   !.DTA01 = XOR(e.DTB1, AND(NOT64(e.DTB2), e.DTB3)),
                   !.DTA32 = XOR(e.DTB2, AND(NOT64(e.DTB3), e.DTB4)),
                   !.DTA13 = XOR(e.DTB3, AND(NOT64(e.DTB4), e.DTB0)),
                   !.DTA44 = XOR(e.DTB4, AND(NOT64(e.DTB0), e.DTB1))]
    [] k = 25 ->   \* lines 251-255
         [e EXCEPT !.DTB3 = ROL64(XOR(e.DTA10, e.DTD0), 41),
                   !.DTB4 = ROL64(XOR(e.DTA41, e.DTD1), 2),
                   !.DTB0 = ROL64(XOR(e.DTA22, e.DTD2), 62),
                   !.DTB1 = ROL64(XOR(e.DTA03, e.DTD3), 55),
                   !.DTB2 = ROL64(XOR(e.DTA34, e.DTD4), 39)]
    [] k = 26 ->   \* lines 256-260
         [e EXCEPT !.DTA10 = XOR(e.DTB0, AND(NOT64(e.DTB1), e.DTB2)),
                   !.DTA41 = XOR(e.DTB1, AND(NOT64(e.DTB2), e.DTB3)),
                   !.DTA22 = XOR(e.DTB2, AND(NOT64(e.DTB3), e.DTB4)),
                   !.DTA03 = XOR(e.DTB3, AND(NOT64(e.DTB4), e.DTB0)),
                   !.DTA34 = XOR(e.DTB4, AND(NOT64(e.DTB0), e.DTB1))]
    [] k = 27 ->   \* lines 262-266
         [e EXCEPT !.DTC0 = XOR(XOR(XOR(XOR(e.DTA00, e.DTA40), e.DTA30), e.DTA20), e.DTA10),
                   !.DTC1 = XOR(XOR(XOR(XOR(e.DTA31, e.DTA21), e.DTA11), e.DTA01), e.DTA41),
                   !.DTC2 = XOR(XOR(XOR(XOR(e.DTA12, e.DTA02), e.DTA42), e.DTA32), e.DTA22),
                   !.DTC3 = XOR(XOR(XOR(XOR(e.DTA43, e.DTA33), e.DTA23), e.DTA13), e.DTA03),
                   !.DTC4 = XOR(XOR(XOR(XOR(e.DTA24, e.DTA14), e.DTA04), e.DTA44), e.DTA34)]
    [] k = 28 ->   \* lines 267-271
         [e EXCEPT !.DTD0 = XOR(e.DTC4, ROL64(e.DTC1, 1)),
                   !.DTD1 = XOR(e.DTC0, ROL64(e.DTC2, 1)),
                   !.DTD2 = XOR(e.DTC1, ROL64(e.DTC3, 1)),
                   !.DTD3 = XOR(e.DTC2, ROL64(e.DTC4, 1)),
                   !.DTD4 = XOR(e.DTC3, ROL64(e.DTC0, 1))]
    [] k = 29 ->   \* lines 273-277
         [e EXCEPT !.DTB0 = XOR(e.DTA00, e.DTD0),
                   !.DTB1 = ROL64(XOR(e.DTA21, e.DTD1), 44),
                   !.DTB2 = ROL64(XOR(e.DTA42, e.DTD2), 43),
                   !.DTB3 = ROL64(XOR(e.DTA13, e.DTD3), 21),
                   !.DTB4 = ROL64(XOR(e.DTA34, e.DTD4), 14)]
    [] k = 30 ->   \* lines 278-278
         [e EXCEPT !.DTA00 = XOR(e.DTB0, AND(NOT64(e.DTB1), e.DTB2))]
    [] k = 31 ->   \* lines 279-283
         [e EXCEPT !.DTA00 = XOR(e.DTA00, RC(i + 2)),
                   !.DTA21 = XOR(e.DTB1, AND(NOT64(e.DTB2), e.DTB3)),
                   !.DTA42 = XOR(e.DTB2, AND(NOT64(e.DTB3), e.DTB4)),
                   !.DTA13 = XOR(e.DTB3, AND(NOT64(e.DTB4), e.DTB0)),
                   !.DTA34 = XOR(e.DTB4, AND(NOT64(e.DTB0), e.DTB1))]
    [] k = 32 ->   \* lines 285-289
         [e EXCEPT !.DTB2 = ROL64(XOR(e.DTA30, e.DTD0), 3),
                   !.DTB3 = ROL64(XOR(e.DTA01, e.DTD1), 45),
                   !.DTB4 = ROL64(XOR(e.DTA22, e.DTD2), 61),
                   !.DTB0 = ROL64(XOR(e.DTA43, e.DTD3), 28),
                   !.DTB1 = ROL64(XOR(e.DTA14, e.DTD4), 20)]
    [] k = 33 ->   \* lines 290-294
         [e EXCEPT !.DTA30 = XOR(e.DTB0, AND(NOT64(e.DTB1), e.DTB2)),
                   !.DTA01 = XOR(e.DTB1, AND(NOT64(e.DTB2), e.DTB3)),
                   !.DTA22 = XOR(e.DTB2, AND(NOT64(e.DTB3), e.DTB4)),
                   !.DTA43 = XOR(e.DTB3, AND(NOT64(e.DTB4), e.DTB0)),
                   !.DTA14 = XOR(e.DTB4, AND(NOT64(e.DTB0), e.DTB1))]
    [] k = 34 ->   \* lines 296-300
         [e EXCEPT !.DTB4 = ROL64(XOR(e.DTA10, e.DTD0), 18),
                   !.DTB0 = ROL64(XOR(e.DTA31, e.DTD1), 1),
                   !.DTB1 = ROL64(XOR(e.DTA02, e.DTD2), 6),
                   !.DTB2 = ROL64(XOR(e.DTA23, e.DTD3), 25),
                   !.DTB3 = ROL64(XOR(e.DTA44, e.DTD4), 8)]
    [] k = 35 ->   \* lines 301-305
         [e EXCEPT !.DTA10 = XOR(e.DTB0, AND(NOT64(e.DTB1), e.DTB2)),
                   !.DTA31 = XOR(e.DTB1, AND(NOT64(e.DTB2), e.DTB3)),
                   !.DTA02 = XOR(e.DTB2, AND(NOT64(e.DTB3), e.DTB4)),
                   !.DTA23 = XOR(e.DTB3, AND(NOT64(e.DTB4), e.DTB0)),
                   !.DTA44 = XOR(e.DTB4, AND(NOT64(e.DTB0), e.DTB1))]
    [] k = 36 ->   \* lines 307-311
         [e EXCEPT !.DTB1 = ROL64(XOR(e.DTA40, e.DTD0), 36),
                   !.DTB2 = ROL64(XOR(e.DTA11, e.DTD1), 10),
                   !.DTB3 = ROL64(XOR(e.DTA32, e.DTD2), 15),
                   !.DTB4 = ROL64(XOR(e.DTA03, e.DTD3), 56),
                   !.DTB0 = ROL64(XOR(e.DTA24, e.DTD4), 27)]
    [] k = 37 ->   \* lines 312-316
         [e EXCEPT !.DTA40 = XOR(e.DTB0, AND(NOT64(e.DTB1), e.DTB2)),
                   !.DTA11 = XOR(e.DTB1, AND(NOT64(e.DTB2), e.DTB3)),
                   !.DTA32 = XOR(e.DTB2, AND(NOT64(e.DTB3), e.DTB4)),
                   !.DTA03 = XOR(e.DTB3, AND(NOT64(e.DTB4), e.DTB0)),
                   !.DTA24 = XOR(e.DTB4, AND(NOT64(e.DTB0), e.DTB1))]
    [] k = 38 ->   \* lines 318-322
         [e EXCEPT !.DTB3 = ROL64(XOR(e.DTA20, e.DTD0), 41),
                   !.DTB4 = ROL64(XOR(e.DTA41, e.DTD1), 2),
                   !.DTB0 = ROL64(XOR(e.DTA12, e.DTD2), 62),
                   !.DTB1 = ROL64(XOR(e.DTA33, e.DTD3), 55),
                   !.DTB2 = ROL64(XOR(e.DTA04, e.DTD4), 39)]
    [] k = 39 ->   \* lines 323-327
         [e EXCEPT !.DTA20 = XOR(e.DTB0, AND(NOT64(e.DTB1), e.DTB2)),
                   !.DTA41 = XOR(e.DTB1, AND(NOT64(e.DTB2), e.DTB3)),
                   !.DTA12 = XOR(e.DTB2, AND(NOT64(e.DTB3), e.DTB4)),
                   !.DTA33 = XOR(e.DTB3, AND(NOT64(e.DTB4), e.DTB0)),
                   !.DTA04 = XOR(e.DTB4, AND(NOT64(e.DTB0), e.DTB1))]
    [] k = 40 ->   \* lines 329-333
         [e EXCEPT !.DTC0 = XOR(XOR(XOR(XOR(e.DTA00, e.DTA30), e.DTA10), e.DTA40), e.DTA20),
                   !.DTC1 = XOR(XOR(XOR(XOR(e.DTA21, e.DTA01), e.DTA31), e.DTA11), e.DTA41),
                   !.DTC2 = XOR(XOR(XOR(XOR(e.DTA42, e.DTA22), e.DTA02), e.DTA32), e.DTA12),
                   !.DTC3 = XOR(XOR(XOR(XOR(e.DTA13, e.DTA43), e.DTA23), e.DTA03), e.DTA33),
                   !.DTC4 = XOR(XOR(XOR(XOR(e.DTA34, e.DTA14), e.DTA44), e.DTA24), e.DTA04)]
    [] k = 41 ->   \* lines 334-338
         [e EXCEPT !.DTD0 = XOR(e.DTC4, ROL64(e.DTC1, 1)),
                   !.DTD1 = XOR(e.DTC0, ROL64(e.DTC2, 1)),
                   !.DTD2 = XOR(e.DTC1, ROL64(e.DTC3, 1)),
                   !.DTD3 = XOR(e.DTC2, ROL64(e.DTC4, 1)),
                   !.DTD4 = XOR(e.DTC3, ROL64(e.DTC0, 1))]
    [] k = 42 ->   \* lines 340-344
         [e EXCEPT !.DTB0 = XOR(e.DTA00, e.DTD0),
                   !.DTB1 = ROL64(XOR(e.DTA01, e.DTD1), 44),
                   !.DTB2 = ROL64(XOR(e.DTA02, e.DTD2), 43),
                   !.DTB3 = ROL64(XOR(e.DTA03, e.DTD3), 21),
                   !.DTB4 = ROL64(XOR(e.DTA04, e.DTD4), 14)]
    [] k = 43 ->   \* lines 345-345
         [e EXCEPT !.DTA00 = XOR(e.DTB0, AND(NOT64(e.DTB1), e.DTB2))]
    [] k = 44 ->   \* lines 346-350
         [e EXCEPT !.DTA00 = XOR(e.DTA00, RC(i + 3)),
                   !.DTA01 = XOR(e.DTB1, AND(NOT64(e.DTB2), e.DTB3)),
                   !.DTA02 = XOR(e.DTB2, AND(NOT64(e.DTB3), e.DTB4)),
                   !.DTA03 = XOR(e.DTB3, AND(NOT64(e.DTB4), e.DTB0)),
                   !.DTA04 = XOR(e.DTB4, AND(NOT64(e.DTB0), e.DTB1))]
    [] k = 45 ->   \* lines 352-356
         [e EXCEPT !.DTB2 = ROL64(XOR(e.DTA10, e.DTD0), 3),
                   !.DTB3 = ROL64(XOR(e.DTA11, e.DTD1), 45),
                   !.DTB4 = ROL64(XOR(e.DTA12, e.DTD2), 61),
                   !.DTB0 = ROL64(XOR(e.DTA13, e.DTD3), 28),
                   !.DTB1 = ROL64(XOR(e.DTA14, e.DTD4), 20)]
    [] k = 46 ->   \* lines 357-361
         [e EXCEPT !.DTA10 = XOR(e.DTB0, AND(NOT64(e.DTB1), e.DTB2)),
                   !.DTA11 = XOR(e.DTB1, AND(NOT64(e.DTB2), e.DTB3)),
                   !.DTA12 = XOR(e.DTB2, AND(NOT64(e.DTB3), e.DTB4)),
                   !.DTA13 = XOR(e.DTB3, AND(NOT64(e.DTB4), e.DTB0)),
                   !.DTA14 = XOR(e.DTB4, AND(NOT64(e.DTB0), e.DTB1))]
    [] k = 47 ->   \* lines 363-367
         [e EXCEPT !.DTB4 = ROL64(XOR(e.DTA20, e.DTD0), 18),
                   !.DTB0 = ROL64(XOR(e.DTA21, e.DTD1), 1),
                   !.DTB1 = ROL64(XOR(e.DTA22, e.DTD2), 6),
                   !.DTB2 = ROL64(XOR(e.DTA23, e.DTD3), 25),
                   !.DTB3 = ROL64(XOR(e.DTA24, e.DTD4), 8)]
    [] k = 48 ->   \* lines 368-372
         [e EXCEPT !.DTA20 = XOR(e.DTB0, AND(NOT64(e.DTB1), e.DTB2)),
                   !.DTA21 = XOR(e.DTB1, AND(NOT64(e.DTB2), e.DTB3)),
                   !.DTA22 = XOR(e.DTB2, AND(NOT64(e.DTB3), e.DTB4)),
                   !.DTA23 = XOR(e.DTB3, AND(NOT64(e.DTB4), e.DTB0)),
                   !.DTA24 = XOR(e.DTB4, AND(NOT64(e.DTB0), e.DTB1))]
    [] k = 49 ->   \* lines 374-378
         [e EXCEPT !.DTB1 = ROL64(XOR(e.DTA30, e.DTD0), 36),
                   !.DTB2 = ROL64(XOR(e.DTA31, e.DTD1), 10),
                   !.DTB3 = ROL64(XOR(e.DTA32, e.DTD2), 15),
                   !.DTB4 = ROL64(XOR(e.DTA33, e.DTD3), 56),
                   !.DTB0 = ROL64(XOR(e.DTA34, e.DTD4), 27)]
    [] k = 50 ->   \* lines 379-383
         [e EXCEPT !.DTA30 = XOR(e.DTB0, AND(NOT64(e.DTB1), e.DTB2)),
                   !.DTA31 = XOR(e.DTB1, AND(NOT64(e.DTB2), e.DTB3)),
                   !.DTA32 = XOR(e.DTB2, AND(NOT64(e.DTB3), e.DTB4)),
                   !.DTA33 = XOR(e.DTB3, AND(NOT64(e.DTB4), e.DTB0)),
                   !.DTA34 = XOR(e.DTB4, AND(NOT64(e.DTB0), e.DTB1))]
    [] k = 51 ->   \* lines 385-389
         [e EXCEPT !.DTB3 = ROL64(XOR(e.DTA40, e.DTD0), 41),
                   !.DTB4 = ROL64(XOR(e.DTA41, e.DTD1), 2),
                   !.DTB0 = ROL64(XOR(e.DTA42, e.DTD2), 62),
                   !.DTB1 = ROL64(XOR(e.DTA43, e.DTD3), 55),
                   !.DTB2 = ROL64(XOR(e.DTA44, e.DTD4), 39)]
    [] k = 52 ->   \* lines 390-394
         [e EXCEPT !.DTA40 = XOR(e.DTB0, AND(NOT64(e.DTB1), e.DTB2)),
                   !.DTA41 = XOR(e.DTB1, AND(NOT64(e.DTB2), e.DTB3)),
                   !.DTA42 = XOR(e.DTB2, AND(NOT64(e.DTB3), e.DTB4)),
                   !.DTA43 = XOR(e.DTB3, AND(NOT64(e.DTB4), e.DTB0)),
                   !.DTA44 = XOR(e.DTB4, AND(NOT64(e.DTB0), e.DTB1))]

NumStatementGroups == 52

\* The statement groups lo .. hi run in order.
RECURSIVE KeccakRun(_, _, _, _)
KeccakRun(e, i, lo, hi) ==
  IF lo = hi THEN KeccakStatements(e, i, lo)
  ELSE Bind(KeccakRun(e, i, lo, (lo + hi) \div 2),
            LAMBDA t : KeccakRun(t, i, (lo + hi) \div 2 + 1, hi))

\* One pass of the loop body on the state s.
KeccakRounds(s, i) ==
  Bind(KeccakVars(s), LAMBDA e0 :
    Bind(KeccakRun(e0, i, 1, NumStatementGroups), LAMBDA e :
      << e.DTA00, e.DTA01, e.DTA02, e.DTA03, e.DTA04,
         e.DTA10, e.DTA11, e.DTA12, e.DTA13, e.DTA14,
         e.DTA20, e.DTA21, e.DTA22, e.DTA23, e.DTA24,
         e.DTA30, e.DTA31, e.DTA32, e.DTA33, e.DTA34,
         e.DTA40, e.DTA41, e.DTA42, e.DTA43, e.DTA44 >>))

\* for(i=0; i<24; i+=4){...}
RECURSIVE KeccakLoop(_, _)
KeccakLoop(s, i) ==
  IF i < 24 THEN Bind(KeccakRounds(s, i), LAMBDA t : KeccakLoop(t, i + 4)) ELSE s

KeccakF1600Step(s) == Bind(s, LAMBDA t : KeccakLoop(t, 0))

(***************************************************************************)
(* SHA3Context.  s is u.s[25]; hi holds the bytes u.x[200], u.x[201], ...  *)
(* that lie beyond the lanes (hi[k] is u.x[199 + k]; bytes past Len(hi)    *)
(* still hold the 0 of memset).  nPerm, nWord and oob are history fields:  *)
(* the number of KeccakF1600Step calls and of passes of the 8-byte loop    *)
(* since SHA3Init, and whether a byte was XORed into u.x at an index       *)
(* >= nRate or a SHA3Update call returned with nLoaded >= nRate.           *)
(***************************************************************************)
ZeroLanes == << {}, {}, {}, {}, {},  {}, {}, {}, {}, {},  {}, {}, {}, {}, {},
                {}, {}, {}, {}, {},  {}, {}, {}, {}, {} >>

NoContext ==
  [s |-> ZeroLanes, hi |-> << >>, nRate |-> 0, nLoaded |-> 0, ixMask |-> 0,
   nPerm |-> 0, nWord |-> 0, oob |-> FALSE]

\* The builds: SHA3_BYTEORDER as the preprocessor fixes it (0: found out at
\* run time) and the byte order of the machine the build runs on.
Builds ==
  { [SHA3_BYTEORDER |-> 1234, bigEndian |-> FALSE],
    [SHA3_BYTEORDER |-> 4321, bigEndian |-> TRUE],
    [SHA3_BYTEORDER |-> 0, bigEndian |-> FALSE],
    [SHA3_BYTEORDER |-> 0, bigEndian |-> TRUE] }

\* u.x[j] for j < 200 is a byte of lane u.s[j/8]: which one depends on the
\* machine's byte order.
SigByte(b, j) == IF b.bigEndian THEN 7 - (j % 8) ELSE j % 8

\* n ^ m for the two masks the code uses, 0 and 7.
XorMask(n, m) == IF m = 0 THEN n ELSE (n - (n % 8)) + (7 - (n % 8))

XorByte(v, w) == BitsValue(XOR(BitSet(v, 8), BitSet(w, 8)))

RECURSIVE WriteHi(_, _, _)
WriteHi(hi, k, v) ==
  IF k <= Len(hi) THEN [hi EXCEPT ![k] = v] ELSE WriteHi(Append(hi, 0), k, v)

ReadHi(hi, k) == IF k <= Len(hi) THEN hi[k] ELSE 0

\* u.x[j]
ReadX(b, p, j) ==
  IF j < 200 THEN LaneByte(p.s[j \div 8 + 1], SigByte(b, j))
  ELSE ReadHi(p.hi, j - 199)

\* u.x[j] = v
WriteX(b, p, j, v) ==
  IF j < 200
  THEN [p EXCEPT !.s[j \div 8 + 1] =
                   (@ \ ByteAt(255, SigByte(b, j))) \cup ByteAt(v, SigByte(b, j))]
  ELSE [p EXCEPT !.hi = WriteHi(@, j - 199, v)]

\* u.x[j] ^= v
XorX(b, p, j, v) ==
  IF j < 200
  THEN [p EXCEPT !.s[j \div 8 + 1] = XOR(@, ByteAt(v, SigByte(b, j))),
                 !.oob = @ \/ j >= p.nRate]
  ELSE [p EXCEPT !.hi = WriteHi(@, j - 199, XorByte(ReadHi(@, j - 199), v)),
                 !.oob = TRUE]

\* KeccakF1600Step(p); p->nLoaded = 0;
Permute(p) ==
  [p EXCEPT !.s = KeccakF1600Step(@), !.nLoaded = 0, !.nPerm = @ + 1]

SHA3Init(b, size) ==
  [s |-> ZeroLanes,
   hi |-> << >>,
   nRate |-> IF size >= 128 /\ size <= 512
             THEN (1600 - ((size + 31) - ((size + 31) % 32)) * 2) \div 8
             ELSE (1600 - 2 * 256) \div 8,
   nLoaded |-> 0,
   ixMask |-> IF b.SHA3_BYTEORDER = 1234 THEN 0
              ELSE IF b.SHA3_BYTEORDER = 4321 THEN 7
              ELSE IF b.bigEndian THEN 7 ELSE 0,
   nPerm |-> 0,
   nWord |-> 0,
   oob |-> FALSE]

\* One pass of the 8-byte loop: aData[i..i+7] read as one native word (the
\* loop is compiled in only when SHA3_BYTEORDER is 1234, little-endian).
WordStep(p, aData, i) ==
  Bind([p EXCEPT !.s[p.nLoaded \div 8 + 1] =
                   XOR(@, UNION {ByteAt(aData[i + t + 1], t) : t \in 0..7}),
                 !.nLoaded = @ + 8,
                 !.nWord = @ + 1,
                 !.oob = @ \/ p.nLoaded + 8 > p.nRate],
       LAMBDA p1 : IF p1.nLoaded >= p1.nRate THEN Permute(p1) ELSE p1)

\* for(; i+7<nData; i+=8){...}: the passes for the words lo .. hi-1, in
\* order, the range being halved rather than walked.
RECURSIVE WordLoop(_, _, _, _)
WordLoop(aData, p, lo, hi) ==
  IF lo >= hi THEN p
  ELSE IF hi - lo = 1 THEN WordStep(p, aData, 8 * lo)
  ELSE Bind(WordLoop(aData, p, lo, (lo + hi) \div 2),
            LAMBDA q : WordLoop(aData, q, (lo + hi) \div 2, hi))

\* The byte loop with the permutation one byte late.
ByteStep_LatePermute(b, p, v) ==
  LET j == IF b.SHA3_BYTEORDER = 1234 THEN p.nLoaded
           ELSE IF b.SHA3_BYTEORDER = 4321 THEN XorMask(p.nLoaded, 7)
           ELSE XorMask(p.nLoaded, p.ixMask)
  IN  Bind([XorX(b, p, j, v) EXCEPT !.nLoaded = @ + 1],
           LAMBDA p1 : IF p1.nLoaded > p1.nRate THEN Permute(p1) ELSE p1)

\* One pass of the byte loop.
ByteStep(b, p, v) ==
  LET j == IF b.SHA3_BYTEORDER = 1234 THEN p.nLoaded
           ELSE IF b.SHA3_BYTEORDER = 4321 THEN XorMask(p.nLoaded, 7)
           ELSE XorMask(p.nLoaded, p.ixMask)
  IN  Bind([XorX(b, p, j, v) EXCEPT !.nLoaded = @ + 1],
           LAMBDA p1 : IF p1.nLoaded = p1.nRate THEN Permute(p1) ELSE p1)

\* for(; i<nData; i++){...}: the passes for aData[lo] .. aData[hi-1].
RECURSIVE ByteLoop(_, _, _, _, _)
ByteLoop(b, aData, p, lo, hi) ==
  IF lo >= hi THEN p
  ELSE IF hi - lo = 1 THEN ByteStep(b, p, aData[lo + 1])
  ELSE Bind(ByteLoop(b, aData, p, lo, (lo + hi) \div 2),
            LAMBDA q : ByteLoop(b, aData, q, (lo + hi) \div 2, hi))

\* The 8-byte loop entered whatever nLoaded is.
FastPath_AnyOffset(b, p, aligned) ==
  b.SHA3_BYTEORDER = 1234 /\ aligned

\* aligned: the pointer aData is a multiple of 8.
FastPath(b, p, aligned) ==
  b.SHA3_BYTEORDER = 1234 /\ p.nLoaded % 8 = 0 /\ aligned

SHA3Update(b, p, aData, aligned) ==
  Bind(p, LAMBDA p0 : Bind(aData, LAMBDA a :
    LET nData == Len(a)
        nWords == IF FastPath(b, p0, aligned) THEN nData \div 8 ELSE 0
    IN  Bind(WordLoop(a, p0, 0, nWords), LAMBDA p1 :
          Bind(ByteLoop(b, a, p1, 8 * nWords, nData), LAMBDA q :
            [q EXCEPT !.oob = @ \/ q.nLoaded >= q.nRate]))))

\* One pass of the copy loop of SHA3Final.
CopyStep(b, p, i) == WriteX(b, p, i + p.nRate, ReadX(b, p, XorMask(i, p.ixMask)))

\* for(i=0; i<p->nRate; i++){...}
RECURSIVE CopyLoop(_, _, _, _)
CopyLoop(b, p, lo, hi) ==
  IF lo >= hi THEN p
  ELSE IF hi - lo = 1 THEN CopyStep(b, p, lo)
  ELSE Bind(CopyLoop(b, p, lo, (lo + hi) \div 2),
            LAMBDA q : CopyLoop(b, q, (lo + hi) \div 2, hi))

\* The padding of Keccak before it became SHA3: 0x01 ... 0x80.
FinalPad_Keccak(b, p) ==
  IF p.nLoaded = p.nRate - 1
  THEN SHA3Update(b, p, << 129 >>, FALSE)
  ELSE Bind(SHA3Update(b, p, << 1 >>, FALSE), LAMBDA p1 :
         SHA3Update(b, [p1 EXCEPT !.nLoaded = p1.nRate - 1], << 128 >>, FALSE))

\* The padding of SHA3Final, before the copy loop.
FinalPad(b, p) ==
  IF p.nLoaded = p.nRate - 1
  THEN SHA3Update(b, p, << 134 >>, FALSE)
  ELSE Bind(SHA3Update(b, p, << 6 >>, FALSE), LAMBDA p1 :
         SHA3Update(b, [p1 EXCEPT !.nLoaded = p1.nRate - 1], << 128 >>, FALSE))

\* The context SHA3Final leaves; the pointer it returns is &u.x[nRate].
SHA3Final(b, p) ==
  Bind(p, LAMBDA p0 : Bind(FinalPad(b, p0), LAMBDA p1 : CopyLoop(b, p1, 0, p1.nRate)))

\* The n bytes at the pointer SHA3Final returned (sqlite3_result_blob copies).
ResultBlob(b, p, n) ==
  Bind(p, LAMBDA p0 : [k \in 1..n |-> ReadX(b, p0, p0.nRate + k - 1)])

(***************************************************************************)
(* Bounds of the model                                                     *)
(***************************************************************************)
\* SHA3Update calls per run of the hasher on its own.
MaxChunks == 2
\* A chunk long enough to span rate blocks.
BigChunk == 80
\* KeccakF1600Step applications per run of the permutation on its own.
MaxPermSteps == 4

Sizes == {224, 256, 384, 512}

NoStmt == [kind |-> "none", sql |-> << >>, rows |-> << >>, failAt |-> 0, row |-> 0]
NoResult == [type |-> "pending", blob |-> << >>, msg |-> ""]

(***************************************************************************)
(* The hasher on its own: SHA3Init, then SHA3Update calls that feed a byte *)
(* source chunk by chunk, then SHA3Final.  absorbed is all that was fed.   *)
(***************************************************************************)
\* The byte source: "abc", then bytes of every kind.
SourceByte(j) ==
  IF j <= 3 THEN << 97, 98, 99 >>[j] ELSE (j * 89 + 41) % 256

ChunkSizes == {0, 1, 3, BigChunk}

\* Whether a data pointer is a multiple of 8: only the build with the 8-byte
\* loop ever looks.
Alignments(b) == IF b.SHA3_BYTEORDER = 1234 THEN BOOLEAN ELSE {FALSE}

NumUpdates == Cardinality({k \in 1..Len(calls) : calls[k] = "update"})

InitHash ==
  /\ build \in Builds
  /\ fn = "hasher"
  /\ pc = "start"
  /\ args \in [size : Sizes]
  /\ iSize = args.size
  /\ cx = NoContext
  /\ zSql = << >>
  /\ pStmt = NoStmt
  /\ result = NoResult
  /\ calls = << >>
  /\ absorbed = << >>
  /\ nPrepared = 0
  /\ stepFailed = FALSE
  /\ prev = ZeroLanes

HashInit ==
  /\ fn = "hasher" /\ pc = "start"
  /\ cx' = SHA3Init(build, iSize)
  /\ calls' = Append(calls, "init")
  /\ pc' = "absorbing"
  /\ UNCHANGED << build, fn, args, iSize, zSql, pStmt, result, absorbed,
                  nPrepared, stepFailed, prev >>

HashUpdate ==
  /\ fn = "hasher" /\ pc = "absorbing"
  /\ NumUpdates < MaxChunks
  /\ \E n \in ChunkSizes, aligned \in Alignments(build) :
       \E aData \in {[k \in 1..n |-> SourceByte(Len(absorbed) + k)]} :
           /\ cx' = SHA3Update(build, cx, aData, aligned)
           /\ absorbed' = absorbed \o aData
  /\ calls' = Append(calls, "update")
  /\ UNCHANGED << build, fn, pc, args, iSize, zSql, pStmt, result,
                  nPrepared, stepFailed, prev >>

HashFinal ==
  /\ fn = "hasher" /\ pc = "absorbing"
  /\ \E p \in {SHA3Final(build, cx)} :
         /\ cx' = p
         /\ result' = [type |-> "blob", blob |-> ResultBlob(build, p, iSize \div 8),
                       msg |-> ""]
  /\ calls' = Append(calls, "final")
  /\ pc' = "done"
  /\ UNCHANGED << build, fn, args, iSize, zSql, pStmt, absorbed,
                  nPrepared, stepFailed, prev >>

NextHash == HashInit \/ HashUpdate \/ HashFinal

SpecHash == InitHash /\ [][NextHash]_vars

(***************************************************************************)
(* The SQL functions sha3(X,SIZE) and sha3_query(Y,SIZE).                  *)
(*                                                                         *)
(* The SQL engine is the collaborator.  A value is a record: type, the     *)
(* 64-bit pattern of an integer or a float (bits), and the bytes of a text *)
(* or a blob.  The text Y is the list of its statements, each with what    *)
(* the engine makes of it:                                                 *)
(*   kind   "select" (compiles, read-only), "write" (compiles, not         *)
(*          read-only), "bad" (does not compile), "blank" (white space or  *)
(*          a comment: sqlite3_prepare_v2 succeeds and yields no           *)
(*          statement)                                                     *)
(*   sql    sqlite3_sql() of the statement                                 *)
(*   rows   its result rows                                                *)
(*   failAt 0, or the number of the sqlite3_step call that fails           *)
(***************************************************************************)
\* Statements per text Y.
MaxStmts == 2

Null == [type |-> "null", bits |-> {}, bytes |-> << >>]
Integer(u) == [type |-> "integer", bits |-> u, bytes |-> << >>]
Float(u) == [type |-> "float", bits |-> u, bytes |-> << >>]
Text(z) == [type |-> "text", bits |-> {}, bytes |-> z]
Blob(z) == [type |-> "blob", bits |-> {}, bytes |-> z]

\* sqlite3_value_int(): NULL converts to 0.
ValueInt(v) == IF v.type = "integer" THEN v.int ELSE 0

Stmt(kind, sql, rows, failAt) ==
  [kind |-> kind, sql |-> sql, rows |-> rows, failAt |-> failAt, row |-> 0]

\* SELECT * FROM t: two rows of five columns, every type among them;
\* the integers 1 and -2, the float 1.5.
StmtSelect ==
  Stmt("select", << 83, 69, 76, 69, 67, 84, 32, 42, 32, 70, 82, 79, 77, 32, 116 >>,
       << << Integer(U64(0, 0, 0, 1)), Null, Float(U64(16376, 0, 0, 0)),
             Text(<< 104, 101, 108, 108, 111, 44, 32, 119, 111, 114, 108, 100 >>), Blob(<< 0, 255 >>) >>,
          << Integer(U64(65535, 65535, 65535, 65534)), Text(<< >>), Null,
             Blob(<< >>), Text(<< 120 >>) >> >>, 0)

\* SELECT v FROM t: the second sqlite3_step call fails, after one row.
StmtFails ==
  Stmt("select", << 83, 69, 76, 69, 67, 84, 32, 118, 32, 70, 82, 79, 77, 32, 116 >>,
       << << Integer(U64(258, 772, 1286, 1800)) >>, << Text(<< 122 >>) >> >>, 2)

StmtWrite == Stmt("write", << 68, 69, 76, 69, 84, 69, 32, 70, 82, 79, 77, 32, 116 >>, << >>, 0)
StmtBad == Stmt("bad", << 83, 69, 76, 69, 67, 32, 49 >>, << >>, 0)
StmtBlank == Stmt("blank", << 32 >>, << >>, 0)

Stmts == {StmtSelect, StmtFails, StmtWrite, StmtBad, StmtBlank}

SqlTexts == UNION {[1..n -> Stmts] : n \in 0..MaxStmts}

\* The SIZE argument when given: NULL or an integer.
NullSize == [type |-> "null", int |-> 0]

SizeArgs ==
  {NullSize} \cup {[type |-> "integer", int |-> n] : n \in {128, 224, 256, 384, 512}}

\* The SIZE arguments tried with sha3_query.
QuerySizeArgs == {NullSize} \cup {[type |-> "integer", int |-> n] : n \in {128, 512}}

\* The X argument of sha3: NULL, an empty blob, the text abc, a long blob.
Sha3Values ==
  { Null, Blob(<< >>), Text(<< 97, 98, 99 >>),
    Blob([k \in 1..BigChunk + BigChunk |-> SourceByte(k)]) }

SizeError == "SHA3 size should be one of: 224 256 " \o "384 512"

\* What strlen() of a null pointer can do: fault, or stop at once or after
\* one byte of whatever lies at address 0.
StrlenNull ==
  { [fault |-> TRUE, got |-> << >>], [fault |-> FALSE, got |-> << >>],
    [fault |-> FALSE, got |-> << 90 >>] }

Error(msg, about) == [type |-> "error", blob |-> about, msg |-> msg]

\* The hasher with what it was fed and the calls made on it.
Hasher(p, fed, log) == [cx |-> p, absorbed |-> fed, calls |-> log]

\* SHA3Update(&cx, aData, n) on h.
Update(b, h, aData, aligned) ==
  Bind(h, LAMBDA g :
    Hasher(SHA3Update(b, g.cx, aData, aligned), g.absorbed \o aData,
           Append(g.calls, "SHA3Update")))

\* "%d" of sqlite3_vsnprintf for n >= 0.
RECURSIVE FormatD(_)
FormatD(n) == IF n < 10 THEN << 48 + n >> ELSE FormatD(n \div 10) \o << 48 + (n % 10) >>

\* hash_step_vformat(&cx, "<c>%d:", n): at most 49 bytes are kept.
hash_step_vformat(b, h, c, n, aligned) ==
  LET zBuf == << c >> \o FormatD(n) \o << 58 >>
  IN  Update(b, h, SubSeq(zBuf, 1, IF Len(zBuf) < 49 THEN Len(zBuf) ELSE 49), aligned)

\* The 8 bytes least significant first.
EncodeU64_LowFirst(c, u) == << c >> \o [j \in 1..8 |-> LaneByte(u, j - 1)]

\* x[0] = c; for(j=8; j>=1; j--){ x[j] = u & 0xff; u >>= 8; }
EncodeU64(c, u) == << c >> \o [j \in 1..8 |-> LaneByte(u, 8 - j)]

\* One case of the switch on sqlite3_column_type.
HashColumn(b, h, v, aligned) ==
  CASE v.type = "null" -> Update(b, h, << 78 >>, aligned)
    [] v.type = "integer" -> Update(b, h, EncodeU64(73, v.bits), aligned)
    [] v.type = "float" -> Update(b, h, EncodeU64(70, v.bits), aligned)
    [] v.type = "text" ->
         Update(b, hash_step_vformat(b, h, 84, Len(v.bytes), aligned), v.bytes, aligned)
    [] v.type = "blob" ->
         Update(b, hash_step_vformat(b, h, 66, Len(v.bytes), aligned), v.bytes, aligned)

\* for(i=0; i<nCol; i++){...} from column i on (0-based).
RECURSIVE HashColumns(_, _, _, _, _)
HashColumns(b, h, row, i, aligned) ==
  IF i >= Len(row) THEN h
  ELSE HashColumns(b, HashColumn(b, h, row[i + 1], aligned), row, i + 1, aligned)

\* The body of the while loop over sqlite3_step for one row.
HashRow(b, h, row, aligned) ==
  HashColumns(b, Update(b, h, << 82 >>, aligned), row, 0, aligned)

\* The "S<n>:<sql>" segment for the text z.
HashSql(b, h, z, aligned) ==
  Update(b, hash_step_vformat(b, h, 83, Len(z), aligned), z, aligned)

InitSql ==
  /\ build \in Builds
  /\ \/ /\ fn = "sha3"
        /\ args \in [argc : {2}, size : SizeArgs, value : Sha3Values]
                     \cup [argc : {1}, size : {NullSize}, value : Sha3Values]
     \/ /\ fn = "sha3_query"
        /\ args \in [argc : {2}, size : QuerySizeArgs, sqlNull : {FALSE}, sql : SqlTexts]
                     \cup [argc : {1}, size : {NullSize}, sqlNull : {FALSE}, sql : SqlTexts]
                     \cup [argc : {1, 2}, size : {NullSize}, sqlNull : {TRUE}, sql : {<< >>}]
  /\ pc = "entry"
  /\ iSize = 0
  /\ cx = NoContext
  /\ zSql = << >>
  /\ pStmt = NoStmt
  /\ result = NoResult
  /\ calls = << >>
  /\ absorbed = << >>
  /\ nPrepared = 0
  /\ stepFailed = FALSE
  /\ prev = ZeroLanes

\* The size the call asks for: 256 when SIZE is omitted.
SizeAsked == IF args.argc = 1 THEN 256 ELSE ValueInt(args.size)

\* Any size SHA3Init would take.
SizeOk_Range(n) == n >= 128 /\ n <= 512

\* if( iSize!=224 && iSize!=256 && iSize!=384 && iSize!=512 ) is the error
SizeOk(n) == ~(n # 224 /\ n # 256 /\ n # 384 /\ n # 512)

ValueIsNull_Never(v) == FALSE

\* eType==SQLITE_NULL
ValueIsNull(v) == v.type = "null"

StmtReadonly_Always(st) == TRUE

\* sqlite3_stmt_readonly(pStmt): true of a null pStmt as well
StmtReadonly(st) == st.kind # "write"

\* The loop left while a statement remains.
MoreSql_AllButLast(z) == Len(z) > 1

\* while( zSql[0] )
MoreSql(z) == z # << >>

\* sha3Func up to SHA3Init.
sha3Func_Entry ==
  /\ fn = "sha3" /\ pc = "entry"
  /\ iSize' = SizeAsked
  /\ IF args.argc # 1 /\ ~SizeOk(SizeAsked)
     THEN /\ result' = Error(SizeError, << >>)
          /\ pc' = "return"
          /\ UNCHANGED << cx, calls >>
     ELSE IF ValueIsNull(args.value)
     THEN /\ result' = [type |-> "null", blob |-> << >>, msg |-> ""]
          /\ pc' = "return"
          /\ UNCHANGED << cx, calls >>
     ELSE /\ cx' = SHA3Init(build, SizeAsked)
          /\ calls' = Append(calls, "SHA3Init")
          /\ pc' = "update"
          /\ UNCHANGED result
  /\ UNCHANGED << build, fn, args, zSql, pStmt, absorbed, nPrepared, stepFailed, prev >>

\* SHA3Update(&cx, sqlite3_value_blob(argv[0]) or ..._text(argv[0]), nByte)
sha3Func_Update ==
  /\ fn = "sha3" /\ pc = "update"
  /\ \E aligned \in Alignments(build) :
       \E h \in {Update(build, Hasher(cx, absorbed, calls), args.value.bytes, aligned)} :
          cx' = h.cx /\ absorbed' = h.absorbed /\ calls' = h.calls
  /\ pc' = "final"
  /\ UNCHANGED << build, fn, args, iSize, zSql, pStmt, result, nPrepared, stepFailed, prev >>

\* sqlite3_result_blob(context, SHA3Final(&cx), iSize/8, SQLITE_TRANSIENT)
sha3Func_Final ==
  /\ fn = "sha3" /\ pc = "final"
  /\ \E p \in {SHA3Final(build, cx)} :
         /\ cx' = p
         /\ result' = [type |-> "blob", blob |-> ResultBlob(build, p, iSize \div 8),
                       msg |-> ""]
  /\ calls' = Append(calls, "SHA3Final")
  /\ pc' = "return"
  /\ UNCHANGED << build, fn, args, iSize, zSql, pStmt, absorbed, nPrepared, stepFailed, prev >>

\* sha3QueryFunc up to the while loop.
sha3QueryFunc_Entry ==
  /\ fn = "sha3_query" /\ pc = "entry"
  /\ iSize' = SizeAsked
  /\ IF args.argc # 1 /\ ~SizeOk(SizeAsked)
     THEN /\ result' = Error(SizeError, << >>)
          /\ pc' = "return"
          /\ UNCHANGED << cx, calls, zSql >>
     ELSE IF args.sqlNull
     THEN /\ result' = [type |-> "null", blob |-> << >>, msg |-> ""]
          /\ pc' = "return"
          /\ UNCHANGED << cx, calls, zSql >>
     ELSE /\ cx' = SHA3Init(build, SizeAsked)
          /\ calls' = Append(calls, "SHA3Init")
          /\ zSql' = args.sql
          /\ pc' = "loop"
          /\ UNCHANGED result
  /\ UNCHANGED << build, fn, args, pStmt, absorbed, nPrepared, stepFailed, prev >>

\* One pass of while( zSql[0] ) up to the loop over sqlite3_step.
sha3QueryFunc_Prepare ==
  /\ fn = "sha3_query" /\ pc = "loop"
  /\ MoreSql(zSql)
  /\ nPrepared' = nPrepared + 1
  /\ LET st == Head(zSql)
         h == Hasher(cx, absorbed, calls)
     IN  IF st.kind = "bad"
         THEN \* rc != 0; the engine leaves zSql where it likes
              /\ \E rest \in {zSql, Tail(zSql)} :
                   /\ zSql' = rest
                   /\ result' = Error("error SQL statement [%s]: %s", rest)
              /\ pc' = "return"
              /\ UNCHANGED << cx, absorbed, calls, pStmt >>
         ELSE IF ~StmtReadonly(st)
         THEN \* !sqlite3_stmt_readonly(pStmt)
              /\ zSql' = Tail(zSql)
              /\ result' = Error("non-query: [%s]", st.sql)
              /\ pc' = "return"
              /\ UNCHANGED << cx, absorbed, calls, pStmt >>
         ELSE IF st.kind = "blank"
         THEN \* pStmt is 0: read-only, no columns, sqlite3_sql() is 0
              /\ zSql' = Tail(zSql)
              /\ \E ub \in StrlenNull, aligned \in Alignments(build) :
                   IF ub.fault
                   THEN /\ pc' = "fault"
                        /\ UNCHANGED << cx, absorbed, calls, pStmt >>
                   ELSE \E h1 \in {HashSql(build, h, ub.got, aligned)} :
                            /\ cx' = h1.cx /\ absorbed' = h1.absorbed /\ calls' = h1.calls
                            /\ pStmt' = st
                            /\ pc' = "step"
              /\ UNCHANGED result
         ELSE /\ zSql' = Tail(zSql)
              /\ \E aligned \in Alignments(build) :
                   \E h1 \in {HashSql(build, h, st.sql, aligned)} :
                      cx' = h1.cx /\ absorbed' = h1.absorbed /\ calls' = h1.calls
              /\ pStmt' = st
              /\ pc' = "step"
              /\ UNCHANGED result
  /\ UNCHANGED << build, fn, args, iSize, stepFailed, prev >>

\* sqlite3_step(pStmt) gives a row.
StepGivesRow ==
  /\ pStmt.kind = "select"
  /\ pStmt.row < Len(pStmt.rows)
  /\ pStmt.row + 1 # pStmt.failAt

\* One sqlite3_step call of while( SQLITE_ROW==sqlite3_step(pStmt) ) and
\* what follows it: the row hashed, or sqlite3_finalize.
sha3QueryFunc_Step ==
  /\ fn = "sha3_query" /\ pc = "step"
  /\ IF StepGivesRow
     THEN /\ \E aligned \in Alignments(build) :
               \E h \in {HashRow(build, Hasher(cx, absorbed, calls),
                                   pStmt.rows[pStmt.row + 1], aligned)} :
                  cx' = h.cx /\ absorbed' = h.absorbed /\ calls' = h.calls
          /\ pStmt' = [pStmt EXCEPT !.row = @ + 1]
          /\ UNCHANGED << pc, stepFailed >>
     ELSE /\ stepFailed' = (stepFailed \/ pStmt.row + 1 = pStmt.failAt)
          /\ pStmt' = NoStmt
          /\ pc' = "loop"
          /\ UNCHANGED << cx, absorbed, calls >>
  /\ UNCHANGED << build, fn, args, iSize, zSql, result, nPrepared, prev >>

\* After the while loop.
sha3QueryFunc_Final ==
  /\ fn = "sha3_query" /\ pc = "loop"
  /\ ~MoreSql(zSql)
  /\ \E p \in {SHA3Final(build, cx)} :
         /\ cx' = p
         /\ result' = [type |-> "blob", blob |-> ResultBlob(build, p, iSize \div 8),
                       msg |-> ""]
  /\ calls' = Append(calls, "SHA3Final")
  /\ pc' = "return"
  /\ UNCHANGED << build, fn, args, iSize, zSql, pStmt, absorbed, nPrepared, stepFailed, prev >>

Next ==
  \/ sha3Func_Entry
  \/ sha3Func_Update
  \/ sha3Func_Final
  \/ sha3QueryFunc_Entry
  \/ sha3QueryFunc_Prepare
  \/ sha3QueryFunc_Step
  \/ sha3QueryFunc_Final

Spec == InitSql /\ [][Next]_vars

(***************************************************************************)
(* The permutation on its own: KeccakF1600Step applied again and again to  *)
(* a seed state; prev is the state before the last application.            *)
(***************************************************************************)
PermSeeds ==
  {ZeroLanes} \cup {[ZeroLanes EXCEPT ![k] = {e}] : k \in 1..25, e \in {0, 63}}

InitPerm ==
  /\ build \in {b \in Builds : b.SHA3_BYTEORDER = 1234}
  /\ fn = "perm"
  /\ pc = "start"
  /\ args = [size |-> 256]
  /\ iSize = 256
  /\ \E seed \in PermSeeds : cx = [NoContext EXCEPT !.s = seed]
  /\ zSql = << >>
  /\ pStmt = NoStmt
  /\ result = NoResult
  /\ calls = << >>
  /\ absorbed = << >>
  /\ nPrepared = 0
  /\ stepFailed = FALSE
  /\ prev = ZeroLanes

PermStep ==
  /\ fn = "perm"
  /\ Len(calls) < MaxPermSteps
  /\ prev' = cx.s
  /\ cx' = [cx EXCEPT !.s = KeccakF1600Step(@), !.nPerm = @ + 1]
  /\ calls' = Append(calls, "KeccakF1600Step")
  /\ UNCHANGED << build, fn, pc, args, iSize, zSql, pStmt, result, absorbed,
                  nPrepared, stepFailed >>

NextPerm == PermStep

SpecPerm == InitPerm /\ [][NextPerm]_vars

(***************************************************************************)
(* SHA3Final statement by statement, entered with every buffered count the *)
(* hasher can hold: args.nLoaded bytes of the byte source were absorbed    *)
(* since SHA3Init, fewer than the rate.  pc is the place in SHA3Final:     *)
(* "entry", "c2" (after SHA3Update(p, &c2, 1)), "padded" (before the copy  *)
(* loop), "done".  cx.nPerm counts the KeccakF1600Step calls of the run.   *)
(***************************************************************************)
\* The context SHA3Final is entered with.
FinalEntry(b, size, n) ==
  SHA3Update(b, SHA3Init(b, size), [k \in 1..n |-> SourceByte(k)], FALSE)

\* The jump left out.
JumpToLast_Stay(p) == p

\* p->nLoaded = p->nRate - 1;
JumpToLast(p) == [p EXCEPT !.nLoaded = p.nRate - 1]

\* The builds SHA3Final is stepped through on: those whose byte order the
\* preprocessor fixes, one little-endian and one big-endian.
FinalBuilds == {b \in Builds : b.SHA3_BYTEORDER # 0}

InitFinal ==
  /\ build \in FinalBuilds
  /\ fn = "final"
  /\ pc = "entry"
  /\ \E size \in Sizes :
       /\ iSize = size
       /\ \E n \in 0..(SHA3Init(build, size).nRate - 1) :
            /\ args = [size |-> size, nLoaded |-> n]
            /\ cx = FinalEntry(build, size, n)
            /\ absorbed = [k \in 1..n |-> SourceByte(k)]
  /\ zSql = << >>
  /\ pStmt = NoStmt
  /\ result = NoResult
  /\ calls = << "SHA3Init", "SHA3Update" >>
  /\ nPrepared = 0
  /\ stepFailed = FALSE
  /\ prev = ZeroLanes

\* if( p->nLoaded==p->nRate-1 ){ SHA3Update(p, &c1, 1); }
FinalPad86 ==
  /\ fn = "final" /\ pc = "entry"
  /\ cx.nLoaded = cx.nRate - 1
  /\ cx' = SHA3Update(build, cx, << 134 >>, FALSE)
  /\ pc' = "padded"
  /\ UNCHANGED << build, fn, args, iSize, zSql, pStmt, result, calls, absorbed,
                  nPrepared, stepFailed, prev >>

\* else{ SHA3Update(p, &c2, 1);
FinalPad06 ==
  /\ fn = "final" /\ pc = "entry"
  /\ cx.nLoaded # cx.nRate - 1
  /\ cx' = SHA3Update(build, cx, << 6 >>, FALSE)
  /\ pc' = "c2"
  /\ UNCHANGED << build, fn, args, iSize, zSql, pStmt, result, calls, absorbed,
                  nPrepared, stepFailed, prev >>

\* p->nLoaded = p->nRate - 1; SHA3Update(p, &c3, 1); }
FinalPad80 ==
  /\ fn = "final" /\ pc = "c2"
  /\ cx' = SHA3Update(build, JumpToLast(cx), << 128 >>, FALSE)
  /\ pc' = "padded"
  /\ UNCHANGED << build, fn, args, iSize, zSql, pStmt, result, calls, absorbed,
                  nPrepared, stepFailed, prev >>

\* The copy loop and the return.
FinalCopy ==
  /\ fn = "final" /\ pc = "padded"
  /\ \E p \in {CopyLoop(build, cx, 0, cx.nRate)} :
       /\ cx' = p
       /\ result' = [type |-> "blob", blob |-> ResultBlob(build, p, iSize \div 8),
                     msg |-> ""]
  /\ calls' = Append(calls, "SHA3Final")
  /\ pc' = "done"
  /\ UNCHANGED << build, fn, args, iSize, zSql, pStmt, absorbed,
                  nPrepared, stepFailed, prev >>

NextFinal == FinalPad86 \/ FinalPad06 \/ FinalPad80 \/ FinalCopy

SpecFinal == InitFinal /\ [][NextFinal]_vars

(***************************************************************************)
(* Keccak-f[1600] as the specification's section 4.1 gives it: 24 rounds   *)
(* of Theta, Rho, Pi, Chi, Iota over lanes lane[5*y+x].                    *)
(***************************************************************************)
RefXor(a, b) == (a \cup b) \ (a \cap b)
RefRotl(a, n) == {(e + n) % 64 : e \in a}
RefLane(A, x, y) == A[5 * y + x + 1]

\* offsets[x][y], listed row by row (y = 0 first).
RefOffsets ==
  << <<  0,  1, 62, 28, 27 >>,
     << 36, 44,  6, 55, 20 >>,
     <<  3, 10, 43, 25, 39 >>,
     << 41, 45, 15, 21,  8 >>,
     << 18,  2, 61, 56, 14 >> >>

RefOffset(x, y) == RefOffsets[y + 1][x + 1]

RefRoundConstants ==
  << U64(0, 0, 0, 1),
     U64(0, 0, 0, 32898),
     U64(32768, 0, 0, 32906),
     U64(32768, 0, 32768, 32768),
     U64(0, 0, 0, 32907),
     U64(0, 0, 32768, 1),
     U64(32768, 0, 32768, 32897),
     U64(32768, 0, 0, 32777),
     U64(0, 0, 0, 138),
     U64(0, 0, 0, 136),
     U64(0, 0, 32768, 32777),
     U64(0, 0, 32768, 10),
     U64(0, 0, 32768, 32907),
     U64(32768, 0, 0, 139),
     U64(32768, 0, 0, 32905),
     U64(32768, 0, 0, 32771),
     U64(32768, 0, 0, 32770),
     U64(32768, 0, 0, 128),
     U64(0, 0, 0, 32778),
     U64(32768, 0, 32768, 10),
     U64(32768, 0, 32768, 32897),
     U64(32768, 0, 0, 32896),
     U64(0, 0, 32768, 1),
     U64(32768, 0, 32768, 32776) >>

\* The 25 lanes F(x, y), in the order lane[5*y+x].
Tab25(F(_, _)) ==
  << F(0, 0), F(1, 0), F(2, 0), F(3, 0), F(4, 0),
     F(0, 1), F(1, 1), F(2, 1), F(3, 1), F(4, 1),
     F(0, 2), F(1, 2), F(2, 2), F(3, 2), F(4, 2),
     F(0, 3), F(1, 3), F(2, 3), F(3, 3), F(4, 3),
     F(0, 4), F(1, 4), F(2, 4), F(3, 4), F(4, 4) >>

RefTheta(A) ==
  LET C == [x \in 0..4 |->
              RefXor(RefXor(RefXor(RefXor(RefLane(A, x, 0), RefLane(A, x, 1)),
                                   RefLane(A, x, 2)), RefLane(A, x, 3)),
                     RefLane(A, x, 4))]
      D(x) == RefXor(C[(x + 4) % 5], RefRotl(C[(x + 1) % 5], 1))
  IN  Tab25(LAMBDA x, y : RefXor(RefLane(A, x, y), D(x)))

\* Rho and Pi: the lane at (x, y) comes from (x', y') = ((x + 3y) mod 5, x),
\* rotated by the offset of the place it comes from.
RefRhoPi(A) ==
  Tab25(LAMBDA x, y :
          RefRotl(RefLane(A, (x + 3 * y) % 5, x), RefOffset((x + 3 * y) % 5, x)))

RefChi(A) ==
  Tab25(LAMBDA x, y :
          RefXor(RefLane(A, x, y),
                 ((0..63) \ RefLane(A, (x + 1) % 5, y)) \cap RefLane(A, (x + 2) % 5, y)))

RefIota(A, r) == [A EXCEPT ![1] = RefXor(@, RefRoundConstants[r + 1])]

RefRound(A, r) == RefIota(RefChi(RefRhoPi(RefTheta(A))), r)

RECURSIVE RefRounds(_)
RefRounds(p) ==
  IF p.r < 24 THEN RefRounds([A |-> RefRound(p.A, p.r), r |-> p.r + 1]) ELSE p.A

RefKeccakF1600(A) == RefRounds([A |-> A, r |-> 0])

\* C8: whatever state KeccakF1600Step is applied to, it returns what 24
\* rounds of Theta, Rho, Pi, Chi, Iota of section 4.1 return, the lanes in
\* their home positions lane[5*y+x].
C8_StepIsKeccakF ==
  (fn = "perm" /\ Len(calls) > 0) => cx.s = RefKeccakF1600(prev)

\* C8 witness: the permutation has been applied to a state that is not all
\* zero and has moved it.
C8_Witness ==
  fn = "perm" /\ Len(calls) = 2 /\ prev # ZeroLanes /\ cx.s # prev

(***************************************************************************)
(* SHA3 as the standard defines it, over the permutation of the code: pad  *)
(* the message, XOR it block by block into an all-zero state with a        *)
(* permutation after each block, and read the digest off the state.        *)
(***************************************************************************)
RefRate(size) == (1600 - 2 * size) \div 8

\* M, then 0x06, zero bytes and 0x80 (0x86 when one byte is free).
RefPad(M, rate) ==
  LET free == rate - (Len(M) % rate)
  IN  IF free = 1 THEN M \o << 134 >>
      ELSE M \o << 6 >> \o [k \in 1..(free - 2) |-> 0] \o << 128 >>

\* Lane k of a block: its bytes 8k .. 8k+7, the first the least significant.
RefBlockLane(blk, k) == UNION {ByteAt(blk[8 * k + t + 1], t) : t \in 0..7}

RefAbsorb(S, blk, rate) ==
  KeccakF1600Step(
    [k \in 1..25 |->
       IF 8 * (k - 1) < rate THEN RefXor(S[k], RefBlockLane(blk, k - 1)) ELSE S[k]])

RECURSIVE RefBlocks(_, _, _)
RefBlocks(q, P, rate) ==
  IF q.n * rate < Len(P)
  THEN RefBlocks([S |-> RefAbsorb(q.S, SubSeq(P, q.n * rate + 1, (q.n + 1) * rate), rate),
                  n |-> q.n + 1], P, rate)
  ELSE q.S

RefSHA3(size, M) ==
  LET rate == RefRate(size)
      S == RefBlocks([S |-> ZeroLanes, n |-> 0], RefPad(M, rate), rate)
  IN  [j \in 1..(size \div 8) |-> LaneByte(S[(j - 1) \div 8 + 1], (j - 1) % 8)]

\* The published digests of the empty message and of "abc".
KnownEmpty(size) ==
  IF size = 224 THEN
       << 107,  78,   3,  66,  54, 103, 219, 183,  59, 110,  21,  69,  79,  14, 177, 171,
          212,  89, 127, 154,  27,   7, 142,  63,  91,  90, 107, 199 >>
  ELSE IF size = 256 THEN
       << 167, 255, 198, 248, 191,  30, 215, 102,  81, 193,  71,  86, 160,  97, 214,  98,
          245, 128, 255,  77, 228,  59,  73, 250, 130, 216,  10,  75, 128, 248,  67,  74 >>
  ELSE IF size = 384 THEN
       <<  12,  99, 167,  91, 132,  94,  79, 125,   1,  16, 125, 133,  46,  76,  36, 133,
          197,  26,  80, 170, 170, 148, 252,  97, 153,  94, 113, 187, 238, 152,  58,  42,
          195, 113,  56,  49,  38,  74, 219,  71, 251, 107, 209, 224,  88, 213, 240,   4 >>
  ELSE
       << 166, 159, 115, 204, 162,  58, 154, 197, 200, 181, 103, 220,  24,  90, 117, 110,
          151, 201, 130,  22,  79, 226,  88,  89, 224, 209, 220, 193,  71,  92, 128, 166,
           21, 178,  18,  58, 241, 245, 249,  76,  17, 227, 233,  64,  44,  58, 197,  88,
          245,   0,  25, 157, 149, 182, 211, 227,   1, 117, 133, 134,  40,  29, 205,  38 >>

KnownAbc(size) ==
  IF size = 224 THEN
       << 230,  66, 130,  76,  63, 140, 242,  74, 208, 146,  52, 238, 125,  60, 118, 111,
          201, 163, 165,  22, 141,  12, 148, 173, 115, 180, 111, 223 >>
  ELSE IF size = 256 THEN
       <<  58, 152,  93, 167,  79, 226,  37, 178,   4,  92,  23,  45, 107, 211, 144, 189,
          133,  95,   8, 110,  62, 157,  82,  91,  70, 191, 226,  69,  17,  67,  21,  50 >>
  ELSE IF size = 384 THEN
       << 236,   1,  73, 130, 136,  81, 111, 201,  38,  69, 159,  88, 226, 198, 173, 141,
          249, 180, 115, 203,  15, 192, 140,  37, 150, 218, 124, 240, 228, 155, 228, 178,
          152, 216, 140, 234, 146, 122, 199, 245,  57, 241, 237, 242,  40,  55, 109,  37 >>
  ELSE
       << 183,  81, 133,  11,  26,  87,  22, 138,  86, 147, 205, 146,  75, 107,   9, 110,
            8, 246,  33, 130, 116,  68, 247,  13, 136,  79,  93,   2,  64, 210, 113,  46,
           16, 225,  22, 233,  25,  42, 243, 201,  26, 126, 197, 118,  71, 227, 147,  64,
           87,  52,  11,  76, 244,   8, 213, 165, 101, 146, 248,  39,  78, 236,  83, 240 >>

\* C7: the digest of SHA3Init, SHA3Update..., SHA3Final is the SHA3 sponge of
\* all the bytes fed, outputBits/8 bytes long, and the published digest for
\* the empty message and for "abc".
C7_DigestIsSHA3 ==
  (fn = "hasher" /\ pc = "done") =>
     /\ result.blob = RefSHA3(iSize, absorbed)
     /\ Len(result.blob) = iSize \div 8
     /\ absorbed = << >> => result.blob = KnownEmpty(iSize)
     /\ absorbed = << 97, 98, 99 >> => result.blob = KnownAbc(iSize)

\* C7 witness: a digest of a message longer than a rate block, so that the
\* padding lands in a later block.
C7_Witness ==
  /\ fn = "hasher" /\ pc = "done"
  /\ Len(absorbed) > cx.nRate
  /\ cx.nPerm >= 2
  /\ result.blob = RefSHA3(iSize, absorbed)

\* The digest of M fed by a single SHA3Update call that takes the byte loop.
OneCallDigest(b, size, M) ==
  ResultBlob(b, SHA3Final(b, SHA3Update(b, SHA3Init(b, size), M, FALSE)), size \div 8)

\* C1: however the input was split into SHA3Update calls, and whichever of
\* the 8-byte loop and the byte loop each call took, the digest is the one
\* the whole input gives in one call.
C1_ChunkIndependent ==
  (fn = "hasher" /\ pc = "done") =>
     result.blob = OneCallDigest(build, iSize, absorbed)

\* C1 witness: the input was fed in two calls, the 8-byte loop ran and
\* crossed a block boundary.
C1_Witness ==
  /\ fn = "hasher" /\ pc = "done"
  /\ NumUpdates = 2
  /\ cx.nWord > 0
  /\ cx.nPerm >= 2
  /\ Len(absorbed) = BigChunk + 1

(***************************************************************************)
(* sha3(X,SIZE) and sha3_query(Y,SIZE)                                     *)
(***************************************************************************)
InSql == fn \in {"sha3", "sha3_query"}

\* The SIZE argument is given and is not one of the four sizes.
BadSize ==
  args.argc = 2 /\ ~(args.size.type = "integer" /\ args.size.int \in Sizes)

Refused(st) == st.kind \in {"bad", "write"}

\* C2: when a statement of Y does not compile or is not read-only, the call
\* has returned at that statement with the error "error SQL statement ..."
\* or "non-query: ...", SHA3Final was not called, there is no digest, and no
\* statement after it was compiled, whatever was executed and absorbed
\* before.
C2_AbortsAtRefused ==
  (fn = "sha3_query" /\ nPrepared > 0) =>
     /\ \A k \in 1..(nPrepared - 1) : ~Refused(args.sql[k])
     /\ Refused(args.sql[nPrepared]) =>
          /\ pc = "return"
          /\ result.type = "error"
          /\ result.msg = IF args.sql[nPrepared].kind = "bad"
                          THEN "error SQL statement [%s]: %s"
                          ELSE "non-query: [%s]"
          /\ \A k \in 1..Len(calls) : calls[k] # "SHA3Final"

\* C2 witness: the second statement is not read-only and the call returned
\* its error after the rows of the first were absorbed.
C2_Witness ==
  /\ fn = "sha3_query" /\ pc = "return"
  /\ nPrepared = 2 /\ Len(args.sql) = 2
  /\ args.sql[1] = StmtSelect /\ args.sql[2] = StmtWrite
  /\ result.type = "error" /\ result.msg = "non-query: [%s]"
  /\ Len(absorbed) > Len(StmtSelect.sql)

\* C3: when sqlite3_step reported a failure for a statement, the call does
\* not return a digest: it returns an error.
C3_StepFailureIsError ==
  (fn = "sha3_query" /\ stepFailed /\ pc = "return") => result.type = "error"

(***************************************************************************)
(* The canonical encoding as the specification's section 4.4 gives it.     *)
(***************************************************************************)
CanonDecimal(n) ==
  IF n < 10 THEN << 48 + n >>
  ELSE IF n < 100 THEN << 48 + (n \div 10), 48 + (n % 10) >>
  ELSE << 48 + (n \div 100), 48 + ((n \div 10) % 10), 48 + (n % 10) >>

\* Byte k of a 64-bit pattern, byte 0 the least significant.
CanonByte(u, k) ==
  LET bit(t) == IF (8 * k + t) \in u THEN 1 ELSE 0
  IN  bit(0) + 2 * (bit(1) + 2 * (bit(2) + 2 * (bit(3) + 2 * (bit(4)
        + 2 * (bit(5) + 2 * (bit(6) + 2 * bit(7)))))))

CanonBigEndian(u) ==
  << CanonByte(u, 7), CanonByte(u, 6), CanonByte(u, 5), CanonByte(u, 4),
     CanonByte(u, 3), CanonByte(u, 2), CanonByte(u, 1), CanonByte(u, 0) >>

CanonValue(v) ==
  CASE v.type = "null" -> << 78 >>
    [] v.type = "integer" -> << 73 >> \o CanonBigEndian(v.bits)
    [] v.type = "float" -> << 70 >> \o CanonBigEndian(v.bits)
    [] v.type = "text" -> << 84 >> \o CanonDecimal(Len(v.bytes)) \o << 58 >> \o v.bytes
    [] v.type = "blob" -> << 66 >> \o CanonDecimal(Len(v.bytes)) \o << 58 >> \o v.bytes

RECURSIVE CanonRow(_)
CanonRow(row) ==
  IF row = << >> THEN << >> ELSE CanonValue(Head(row)) \o CanonRow(Tail(row))

RECURSIVE CanonRows(_)
CanonRows(rows) ==
  IF rows = << >> THEN << >>
  ELSE << 82 >> \o CanonRow(Head(rows)) \o CanonRows(Tail(rows))

CanonStmt(sql, rows) ==
  << 83 >> \o CanonDecimal(Len(sql)) \o << 58 >> \o sql \o CanonRows(rows)

\* The result rows of a statement: those sqlite3_step gave.
ResultRows(st) ==
  IF st.failAt = 0 THEN st.rows ELSE SubSeq(st.rows, 1, st.failAt - 1)

\* The rows of statement k taken so far.
RowsSoFar(k) ==
  IF k = nPrepared /\ pc = "step" THEN SubSeq(pStmt.rows, 1, pStmt.row)
  ELSE ResultRows(args.sql[k])

RECURSIVE CanonSoFar(_)
CanonSoFar(k) ==
  IF k = 0 THEN << >>
  ELSE CanonSoFar(k - 1) \o CanonStmt(args.sql[k].sql, RowsSoFar(k))

AllReadOnly == \A k \in 1..Len(args.sql) : args.sql[k].kind = "select"

C5_NullGivesNull ==
  (fn = "sha3" /\ args.value.type = "null" /\ pc = "return") =>
     /\ result.type = "null"
     /\ calls = << >>
     /\ cx.nPerm = 0

\* C5 as the code has it: sha3 of a null value calls none of SHA3Init,
\* SHA3Update, SHA3Final, KeccakF1600Step; it returns null when SIZE is
\* omitted or one of 224 256 384 512, and the size error otherwise.
C5_NullValue ==
  (fn = "sha3" /\ args.value.type = "null") =>
     /\ calls = << >> /\ cx = NoContext /\ absorbed = << >>
     /\ pc = "return" =>
          IF args.argc = 1 \/ (args.size.type = "integer" /\ args.size.int \in Sizes)
          THEN result.type = "null"
          ELSE /\ result.type = "error"
               /\ result.msg = "SHA3 size should be one of: 224 256 384 512"

\* C5 witness: sha3 of a null value with a valid SIZE has returned null.
C5_Witness ==
  /\ fn = "sha3" /\ args.value.type = "null" /\ pc = "return"
  /\ args.argc = 2 /\ args.size.type = "integer" /\ args.size.int = 384
  /\ result.type = "null"

\* C6: a call of sha3 or sha3_query with a SIZE outside 224 256 384 512 (a
\* null SIZE too) returns exactly the error "SHA3 size should be one of:
\* 224 256 384 512" with the hasher never initialised, nothing absorbed, no
\* permutation and no statement compiled; a call without SIZE uses 256.
C6_SizeChecked ==
  (InSql /\ pc # "entry") =>
     /\ BadSize =>
          /\ pc = "return"
          /\ result.type = "error"
          /\ result.msg = "SHA3 size should be one of: 224 256 384 512"
          /\ calls = << >> /\ cx = NoContext /\ absorbed = << >>
          /\ nPrepared = 0 /\ pStmt = NoStmt
     /\ args.argc = 1 =>
          /\ iSize = 256
          /\ result.type # "error" \/ result.msg # "SHA3 size should be one of: 224 256 384 512"
          /\ calls # << >> => cx.nRate = 136
          /\ result.type = "blob" => Len(result.blob) = 32

\* C6 witness: sha3_query of a text with statements and SIZE 128 has
\* returned the error.
C6_Witness ==
  /\ fn = "sha3_query" /\ pc = "return"
  /\ args.argc = 2 /\ args.size.type = "integer" /\ args.size.int = 128
  /\ Len(args.sql) > 0
  /\ result.msg = "SHA3 size should be one of: 224 256 384 512"

\* C9: a sha3_query call with a valid size never faults, whatever the text,
\* a statement of white space included.
C9_NeverFaults ==
  (fn = "sha3_query" /\ ~BadSize) => pc # "fault"

\* C10: once SHA3Init has run, and after every SHA3Update call, the rate is
\* one of 144 136 104 72 and is (1600 - 2*iSize)/8, 0 <= nLoaded < nRate,
\* and no byte was XORed at an index at or beyond nRate.
C10_RateAndLoaded ==
  (InSql /\ calls # << >>) =>
     /\ cx.nRate \in {144, 136, 104, 72}
     /\ 8 * cx.nRate = 1600 - 2 * iSize
     /\ 0 <= cx.nLoaded /\ cx.nLoaded < cx.nRate
     /\ ~cx.oob

\* C10 witness: absorbing filled a block, the permutation ran and more bytes
\* were loaded after it.
C10_Witness ==
  /\ fn = "sha3_query" /\ pc = "step"
  /\ cx.nPerm >= 1 /\ cx.nLoaded > 0
  /\ Len(absorbed) > cx.nRate

\* C11: entered with any rate and any 0 <= nLoaded < nRate, SHA3Final calls
\* KeccakF1600Step exactly once in either padding branch: none up to and
\* including the 0x06 byte, which leaves nLoaded below nRate; one by the
\* last padding byte (0x86 or 0x80); nLoaded is 0 when the copy loop starts
\* and none is added by it.  The statements taken one by one leave what
\* SHA3Final as a whole leaves.
C11_FinalPermutesOnce ==
  fn = "final" =>
     /\ cx.nRate = (1600 - 2 * iSize) \div 8
     /\ pc = "entry" =>
          cx.nPerm = 0 /\ cx.nLoaded = args.nLoaded /\ cx.nLoaded < cx.nRate
     /\ pc = "c2" =>
          /\ args.nLoaded # cx.nRate - 1
          /\ cx.nPerm = 0 /\ cx.nLoaded = args.nLoaded + 1 /\ cx.nLoaded < cx.nRate
     /\ pc \in {"padded", "done"} => cx.nPerm = 1 /\ cx.nLoaded = 0
     /\ pc = "done" =>
          cx = SHA3Final(build, FinalEntry(build, args.size, args.nLoaded))

\* C11 witness: SHA3Final entered with nLoaded = nRate - 1 has padded with
\* the single byte 0x86 and returned after one permutation.
C11_Witness ==
  /\ fn = "final" /\ pc = "done"
  /\ args.nLoaded = cx.nRate - 1
  /\ cx.nPerm = 1 /\ cx.nLoaded = 0
  /\ Len(result.blob) = iSize \div 8

\* The calls on the hasher at places from .. to are all SHA3Update.
OnlyUpdates(from, to) == \A k \in from..to : calls[k] = "SHA3Update"

\* C12: in sha3 and sha3_query the calls on the hasher are SHA3Init once
\* and first, then SHA3Update calls, then SHA3Final at most once and last.
\* A call that returns a digest has made SHA3Final its last hasher call,
\* sha3_query after every statement of the text was taken and stepped to
\* the end of the rows sqlite3_step gave; a call that returns an error or
\* null has not called SHA3Final.
C12_InitUpdatesFinal ==
  InSql =>
     /\ calls # << >> =>
          /\ calls[1] = "SHA3Init"
          /\ \/ OnlyUpdates(2, Len(calls))
             \/ /\ Len(calls) >= 2
                /\ calls[Len(calls)] = "SHA3Final"
                /\ OnlyUpdates(2, Len(calls) - 1)
                /\ pc = "return" /\ result.type = "blob"
     /\ result.type = "blob" =>
          /\ pc = "return"
          /\ Len(calls) >= 2 /\ calls[Len(calls)] = "SHA3Final"
          /\ fn = "sha3_query" =>
               zSql = << >> /\ nPrepared = Len(args.sql) /\ pStmt = NoStmt
     /\ (pc = "return" /\ result.type \in {"error", "null"}) =>
          \A k \in 1..Len(calls) : calls[k] # "SHA3Final"

\* C12 witness: sha3_query has returned the digest of two statements with
\* rows: SHA3Init, many SHA3Update calls, SHA3Final.
C12_Witness ==
  /\ fn = "sha3_query" /\ pc = "return" /\ result.type = "blob"
  /\ Len(args.sql) = 2 /\ nPrepared = 2
  /\ args.sql[1] = StmtSelect /\ args.sql[2] = StmtSelect
  /\ Len(calls) > 20
  /\ calls[1] = "SHA3Init" /\ calls[Len(calls)] = "SHA3Final"
  /\ OnlyUpdates(2, Len(calls) - 1)

====
